---- MODULE Spec2Model ----
(***************************************************************************)
(* parse-cloud-express (src/index.js): Parse.Cloud triggers and functions  *)
(* wrapped into an Express app.  The model covers the Routes table, the    *)
(* routes bound on the app, and the middleware chain a request traverses.  *)
(***************************************************************************)
EXTENDS Naturals, Sequences, FiniteSets, TLC

(***************************************************************************)
(* Bounds of the model.                                                    *)
(***************************************************************************)
\* registrations explored by the registration-only specification SpecReg
MaxRegs == 2
\* routes bound while requests are served (specification Spec)
MaxRoutes == 1
\* connections of the app; Spec serves its requests one after the other on the first
MaxInFlight == 2

(***************************************************************************)
(* JavaScript values.  Every value is a record of the same shape so that   *)
(* any two values can be compared: t is the type tag, s the scalar, and    *)
(* ty/cn/id/title the fields __type, className, objectId, title of an      *)
(* object ("<absent>" when the object has no such field).                  *)
(***************************************************************************)
Absent == "<absent>"

V(t, s) == [t |-> t, s |-> s, ty |-> Absent, cn |-> Absent, id |-> Absent, title |-> Absent]

Undefined == V("undefined", Absent)
Null      == V("null", Absent)
False     == V("boolean", "false")
True      == V("boolean", "true")
Zero      == V("number", "0")
EmptyStr  == V("string", "")
Str(s)    == V("string", s)
\* a live JavaScript Date
DateV     == V("Date", "2020-01-01T00:00:00.000Z")
\* a plain JSON object {__type, className, objectId, title}
Json(ty, cn, id, title) ==
  [t |-> "json", s |-> Absent, ty |-> ty, cn |-> cn, id |-> id, title |-> title]
EmptyObj  == Json(Absent, Absent, Absent, Absent)
\* a key that a response body does not carry
Missing   == V("missing", Absent)

\* JavaScript truthiness, as `x || true` and `if (x)` see it
Truthy(v) == v \notin {Undefined, Null, False, Zero, EmptyStr}

\* string coercion in '/kind_' + className
ToStr(v) ==
  CASE v.t = "string" -> v.s
    [] v.t = "null" -> "null"
    [] v.t = "undefined" -> "undefined"
    [] v.t \in {"boolean", "number"} -> v.s
    [] OTHER -> "[object Object]"

(***************************************************************************)
(* The Parse SDK primitives the middleware calls.                          *)
(***************************************************************************)
\* Parse.Object.fromJSON(json) throws unless json is an object with a className
CanInflate(json) == json.t = "json" /\ json.cn # Absent

\* Parse.Object.fromJSON(json): a live object of class json.className
FromJSON(json) ==
  [t |-> "ParseObject", s |-> Absent, ty |-> Absent,
   cn |-> json.cn, id |-> json.id, title |-> json.title]

\* Parse._decode(undefined, value): {__type: "Date"} becomes a Date, plain fields stay
Decode(v) ==
  IF v.t = "json" /\ v.ty = "Date" THEN V("Date", v.s) ELSE v

\* object.set(attrs): the fields attrs carries overwrite the object's
ObjSet(obj, attrs) ==
  [obj EXCEPT !.title = IF attrs.title # Absent THEN attrs.title ELSE @]

\* object.toJSON(): attributes and objectId, no className
ToJSON(obj) == Json(Absent, Absent, obj.id, obj.title)

\* Parse._encode(value): a Date becomes {__type: "Date", iso}, a Parse.Object a
\* pointer, primitives and plain objects of primitives stay as they are
Encode(v) ==
  CASE v.t = "Date" -> [Json("Date", Absent, Absent, Absent) EXCEPT !.s = v.s]
    [] v.t = "ParseObject" -> Json("Pointer", v.cn, v.id, Absent)
    [] OTHER -> v

(***************************************************************************)
(* Response envelope (src/index.js 92-105).  A response is the status and  *)
(* the body's success and error keys (Missing: the body has no such key).  *)
(***************************************************************************)
Response(status, success, error) ==
  [status |-> status, success |-> success, error |-> error]

\* data = data || true
OrTrue(data) == IF Truthy(data) THEN data ELSE True

successResponse(data) == Response(200, OrTrue(data), Missing)

\* fault injection: an error is answered with status 401
errorResponse401(message) == Response(401, Missing, OrTrue(message))

errorResponse(message) == Response(200, Missing, OrTrue(message))

\* res.status(200).send({})
emptyResponseBody == Response(200, Missing, Missing)

\* the router's own answer when a middleware throws: status 500, no envelope
routerError == Response(500, Missing, Missing)

\* res.send on a connection: the first send is transmitted; a later one throws
\* (headers already sent) and transmits nothing
Send(wire, resp) == IF wire = << >> THEN << resp >> ELSE wire

(***************************************************************************)
(* res.success / res.error are closures; a closure is the sequence of its  *)
(* layers, outermost first: "mojo" (beforeSaveResponseMojo), "encode"      *)
(* (encodeSuccessResponseObject), "base" (addParseResponseMethods).        *)
(***************************************************************************)
\* Parse._encode turns a Parse.Object into a pointer, and object.toPointer() throws
\* for an object that was never saved (it has no id)
EncodeThrows(v) == v.t = "ParseObject" /\ v.id = Absent

\* the Error thrown by toPointer
PointerError == V("Error", "Cannot create a pointer to an unsaved ParseObject")

\* res.success(data) throws before anything is sent
SuccessThrows(layers, data) ==
  layers # << >> /\ Head(layers) = "encode" /\ EncodeThrows(data)

RECURSIVE CallSuccess(_, _, _, _)
CallSuccess(layers, data, object, wire) ==
  IF layers = << >> THEN wire
  ELSE CASE Head(layers) = "mojo" -> CallSuccess(Tail(layers), ToJSON(object), object, wire)
         [] Head(layers) = "encode" -> CallSuccess(Tail(layers), Encode(data), object, wire)
         [] OTHER -> Send(wire, successResponse(data))

CallError(layers, data, wire) ==
  IF layers = << >> THEN wire ELSE Send(wire, errorResponse(data))

(***************************************************************************)
(* Routes and registration (src/index.js 17-23, 121-193, 211-225).         *)
(***************************************************************************)
Kinds == {"beforeSave", "afterSave", "beforeDelete", "afterDelete", "function"}

SaveDeleteKinds == Kinds \ {"function"}

\* fault injection: define installs the response methods after the encoding wrap
ChainOfLateMethods(kind) ==
  CASE kind = "beforeSave" ->
         << "entryLogger", "updateRequestInstallationId", "addParseResponseMethods",
            "inflateParseObject", "inflateParseUser", "beforeSaveResponseMojo", "handler" >>
    [] kind \in {"afterSave", "afterDelete"} ->
         << "entryLogger", "updateRequestInstallationId", "addParseResponseMethods",
            "inflateParseObject", "inflateParseUser", "emptyResponse", "handler" >>
    [] kind = "beforeDelete" ->
         << "entryLogger", "updateRequestInstallationId", "addParseResponseMethods",
            "inflateParseObject", "inflateParseUser", "handler" >>
    [] OTHER ->
         << "entryLogger", "updateRequestInstallationId", "updateRequestFunctionParams",
            "encodeSuccessResponseObject", "addParseResponseMethods", "inflateParseUser",
            "handlerAdapter" >>

\* the middleware chain app.post binds for a kind; the last element is the handler
\* (for define, the arrow function that adapts the handler's promise)
ChainOf(kind) ==
  CASE kind = "beforeSave" ->
         << "entryLogger", "updateRequestInstallationId", "addParseResponseMethods",
            "inflateParseObject", "inflateParseUser", "beforeSaveResponseMojo", "handler" >>
    [] kind \in {"afterSave", "afterDelete"} ->
         << "entryLogger", "updateRequestInstallationId", "addParseResponseMethods",
            "inflateParseObject", "inflateParseUser", "emptyResponse", "handler" >>
    [] kind = "beforeDelete" ->
         << "entryLogger", "updateRequestInstallationId", "addParseResponseMethods",
            "inflateParseObject", "inflateParseUser", "handler" >>
    [] OTHER ->
         << "entryLogger", "updateRequestInstallationId", "updateRequestFunctionParams",
            "addParseResponseMethods", "encodeSuccessResponseObject", "inflateParseUser",
            "handlerAdapter" >>

PathOf(kind, className) == "/" \o kind \o "_" \o ToStr(className)

\* fault injection: the value is handed on as it is
inflateObjectsToClassNamesNone(objectOrClassName) == objectOrClassName

\* inflateObjectsToClassNames: the className of a value that carries one, else the value
inflateObjectsToClassNames(objectOrClassName) ==
  IF objectOrClassName = Null \/ objectOrClassName.cn = Absent
  THEN objectOrClassName
  ELSE Str(objectOrClassName.cn)

\* Parse.Cloud.beforeSave/afterSave/beforeDelete/afterDelete go through
\* inflateObjectsToClassNames; Parse.Cloud.define is define itself
IdentifierOf(kind, arg) ==
  IF kind \in SaveDeleteKinds THEN inflateObjectsToClassNames(arg) ELSE arg

Route(kind, className, handler) ==
  [method |-> "POST", path |-> PathOf(kind, className), kind |-> kind,
   chain |-> ChainOf(kind), handler |-> handler, className |-> className]

(***************************************************************************)
(* State.                                                                  *)
(***************************************************************************)
VARIABLES
  webhookKey,   \* process.env.PARSE_WEBHOOK_KEY, Absent when unset
  Routes,       \* the exported Routes table: kind -> sequence of identifiers
  app,          \* the routes bound on the Express app, in binding order
  regLog,       \* history: the registration calls made, in order
  reqs,         \* the requests in flight, by connection
  egress        \* the outbound call httpRequest made last, and its promise

vars == << webhookKey, Routes, app, regLog, reqs, egress >>

Conns == 1 .. MaxInFlight

\* the request envelope: the JSON body of a webhook call
Body(object, original, update, user, master, params, installationId) ==
  [object |-> object, original |-> original, update |-> update, user |-> user,
   master |-> master, params |-> params, installationId |-> installationId]

EmptyBody == Body(Undefined, Undefined, Undefined, Undefined, Undefined, Undefined, Undefined)

\* history, not program state: the first res.success / res.error call made for a
\* request, with req.object as it was then and whether the handler had edited it
NoCall == [fn |-> "", arg |-> Undefined, obj |-> Undefined, edited |-> FALSE]

\* a connection with no request on it
Idle ==
  [pc |-> "idle", route |-> 0, step |-> 0, header |-> Absent,
   raw |-> EmptyBody, body |-> EmptyBody,
   installationId |-> Undefined, params |-> Undefined, object |-> Undefined,
   user |-> Undefined, master |-> Undefined,
   success |-> << >>, error |-> << >>,
   wire |-> << >>, trace |-> << >>, handler |-> "",
   edited |-> FALSE, first |-> NoCall, caught |-> FALSE]

(***************************************************************************)
(* Egress (src/index.js 195-209).                                          *)
(***************************************************************************)
\* new Parse.Promise(); history: how often resolve and reject were called on it
NewPromise == [state |-> "pending", value |-> Undefined, resolves |-> 0, rejects |-> 0]

\* promise.resolve(value) / promise.reject(value): a settled promise keeps its state
promiseResolve(p, value) ==
  IF p.state = "pending"
  THEN [p EXCEPT !.state = "resolved", !.value = value, !.resolves = @ + 1]
  ELSE [p EXCEPT !.resolves = @ + 1]

promiseReject(p, value) ==
  IF p.state = "pending"
  THEN [p EXCEPT !.state = "rejected", !.value = value, !.rejects = @ + 1]
  ELSE [p EXCEPT !.rejects = @ + 1]

\* the options a caller passes: a url, and json set or not
Options(url, json) == [url |-> url, json |-> json]

\* the response object of the transport; NoResponse stands for undefined
HttpResponse(statusCode) == [statusCode |-> statusCode, text |-> Missing]
NoResponse == HttpResponse(Absent)

\* what the transport passed to the callback; history
NoOutcome == [error |-> Undefined, response |-> NoResponse, body |-> Undefined]

\* no outbound call made yet
NoEgress ==
  [pc |-> "idle", given |-> Options(Absent, Absent),
   options |-> Options(Absent, Absent), attempts |-> 0,
   promise |-> NewPromise, outcome |-> NoOutcome, logged |-> Undefined]

\* the body of httpRequest up to its return: options.json = true, one Request call;
\* given is history, the options as the caller passed them
httpRequestCall(options) ==
  [pc |-> "waiting", given |-> options,
   options |-> [options EXCEPT !.json = "true"], attempts |-> 1,
   promise |-> NewPromise, outcome |-> NoOutcome, logged |-> Undefined]

\* fault injection: the else is missing, so the callback resolves after rejecting
httpRequestCallbackFallThrough(e, error, response, body) ==
  LET rejected == IF Truthy(error)
                  THEN [e EXCEPT !.logged = error,
                                 !.promise = promiseReject(@, response)]
                  ELSE e
  IN  [rejected EXCEPT !.pc = "done",
                       !.outcome = [error |-> error, response |-> response, body |-> body],
                       !.promise = promiseResolve(@, [response EXCEPT !.text = body])]

\* function(error, response, body) { ... }, the callback given to Request
httpRequestCallback(e, error, response, body) ==
  IF Truthy(error)
  THEN [e EXCEPT !.pc = "done",
                 !.outcome = [error |-> error, response |-> response, body |-> body],
                 !.logged = error,
                 !.promise = promiseReject(@, response)]
  ELSE [e EXCEPT !.pc = "done",
                 !.outcome = [error |-> error, response |-> response, body |-> body],
                 !.promise = promiseResolve(@, [response EXCEPT !.text = body])]

(***************************************************************************)
(* Inputs.                                                                 *)
(***************************************************************************)
Secrets == {Absent, "secret"}

Headers == {Absent, "", "secret", "wrong"}

Handlers == {"h1", "h2"}

\* what a host passes as the first argument of a registration call
RegArgs == {Str("Post"), Str("Comment"), Json(Absent, "Post", Absent, Absent), Null}

ObjectJson   == Json(Absent, "Post", "1", "a")
OriginalJson == Json(Absent, "Post", "1", "old")
UpdateJson   == Json(Absent, Absent, Absent, "b")
UserJson     == Json(Absent, Absent, "u1", Absent)
AdminJson    == Json(Absent, "Admin", "u2", Absent)
ParamsJson   == Json(Absent, Absent, Absent, "p")

\* user, master, params and installationId: the steps that read them read nothing of
\* object/original/update, so these four are varied together
Extras ==
  { << Undefined, Undefined, Undefined, Undefined >>,
    << Undefined, True, ParamsJson, Str("i1") >>,
    << UserJson, False, Undefined, Str("i1") >>,
    << UserJson, Undefined, ParamsJson, Undefined >>,
    << AdminJson, True, ParamsJson, Str("i1") >> }

Bodies ==
  { Body(o, g, u, x[1], x[2], x[3], x[4]) :
      o \in {Undefined, ObjectJson}, g \in {Undefined, OriginalJson},
      u \in {Undefined, EmptyObj, UpdateJson}, x \in Extras }

\* what a handler passes to success/error, or settles its promise with
Payloads ==
  {Undefined, Null, False, Zero, EmptyStr, Str("a"), DateV,
   Json(Absent, Absent, Absent, "t")}

\* a Parse.Object a function hands back: one fetched from the server, one just built
SavedObject == FromJSON(Json(Absent, "Post", "1", "t"))
UnsavedObject == FromJSON(Json(Absent, "Post", Absent, "t"))

\* what the promise of a function handler fulfils with
Results == Payloads \cup {SavedObject, UnsavedObject}

\* the edit a handler makes: req.object.set({title: "z"})
HandlerEdit == Json(Absent, Absent, Absent, "z")

(***************************************************************************)
(* Registration.                                                           *)
(***************************************************************************)
Init ==
  /\ webhookKey \in Secrets
  /\ Routes = [k \in Kinds |-> << >>]
  /\ app = << >>
  /\ regLog = << >>
  /\ reqs = [c \in Conns |-> Idle]
  /\ egress = NoEgress

\* fault injection: an identifier the kind already lists is not listed again
BindOnce(kind, className, handler) ==
  /\ app' = Append(app, Route(kind, className, handler))
  /\ Routes' = [Routes EXCEPT ![kind] =
                  IF \E i \in 1 .. Len(@) : @[i] = className THEN @
                  ELSE Append(@, className)]

\* fault injection: the route is bound and the table is left alone
BindOnly(kind, className, handler) ==
  /\ app' = Append(app, Route(kind, className, handler))
  /\ Routes' = Routes

\* beforeSave / afterSave / beforeDelete / afterDelete / define (className, handler):
\* app.post(path, chain..., handler); Routes[kind].push(className)
Bind(kind, className, handler) ==
  /\ app' = Append(app, Route(kind, className, handler))
  /\ Routes' = [Routes EXCEPT ![kind] = Append(@, className)]

\* Parse.Cloud.<kind>(arg, handler)
Register(kind, arg, handler, limit) ==
  /\ Len(regLog) < limit
  /\ Bind(kind, IdentifierOf(kind, arg), handler)
  /\ regLog' = Append(regLog, [kind |-> kind, arg |-> arg, handler |-> handler])
  /\ UNCHANGED << webhookKey, reqs, egress >>

(***************************************************************************)
(* The middleware, each a function of the request it is given.             *)
(***************************************************************************)
\* next(): control passes to the following element of the chain
Next_(q, name) == [q EXCEPT !.step = @ + 1, !.trace = Append(@, name)]

\* a middleware threw: the router answers and the chain is abandoned
Throw(q, name) ==
  [q EXCEPT !.pc = "threw", !.trace = Append(@, name), !.wire = Send(@, routerError)]

\* fault injection: the header is compared only when the request carries one
validateWebhookRequestLenient(q, key) ==
  IF q.header # Absent /\ q.header # key
  THEN [q EXCEPT !.pc = "done", !.trace = Append(@, "validateWebhookRequest"),
                 !.wire = Send(@, errorResponse(Str("Unauthorized Request.")))]
  ELSE [q EXCEPT !.pc = "parse", !.trace = Append(@, "validateWebhookRequest")]

\* fault injection: nothing is compared while no secret is configured
validateWebhookRequestOpenWhenUnset(q, key) ==
  IF key # Absent /\ q.header # key
  THEN [q EXCEPT !.pc = "done", !.trace = Append(@, "validateWebhookRequest"),
                 !.wire = Send(@, errorResponse(Str("Unauthorized Request.")))]
  ELSE [q EXCEPT !.pc = "parse", !.trace = Append(@, "validateWebhookRequest")]

validateWebhookRequest(q, key) ==
  IF q.header # key
  THEN [q EXCEPT !.pc = "done", !.trace = Append(@, "validateWebhookRequest"),
                 !.wire = Send(@, errorResponse(Str("Unauthorized Request.")))]
  ELSE [q EXCEPT !.pc = "parse", !.trace = Append(@, "validateWebhookRequest")]

\* bodyParser.json(): req.body is the parsed envelope
jsonParser(q) ==
  [q EXCEPT !.pc = "chain", !.step = 1, !.body = q.raw, !.trace = Append(@, "jsonParser")]

entryLogger(q) == Next_(q, "entryLogger")

updateRequestInstallationId(q) ==
  Next_([q EXCEPT !.installationId = q.body.installationId], "updateRequestInstallationId")

updateRequestFunctionParams(q) ==
  Next_([q EXCEPT !.params = q.body.params], "updateRequestFunctionParams")

addParseResponseMethods(q) ==
  Next_([q EXCEPT !.success = << "base" >>, !.error = << "base" >>], "addParseResponseMethods")

encodeSuccessResponseObject(q) ==
  Next_([q EXCEPT !.success = << "encode" >> \o @], "encodeSuccessResponseObject")

\* fault injection: original or update suffices for the merge branch
inflateParseObjectEither(q) ==
  IF Truthy(q.body.original) \/ Truthy(q.body.update)
  THEN IF CanInflate(q.body.original)
       THEN Next_([q EXCEPT !.object = ObjSet(FromJSON(q.body.original), Decode(q.body.update))],
                  "inflateParseObject")
       ELSE Throw(q, "inflateParseObject")
  ELSE IF CanInflate(q.body.object)
       THEN Next_([q EXCEPT !.object = FromJSON(q.body.object)], "inflateParseObject")
       ELSE Throw(q, "inflateParseObject")

inflateParseObject(q) ==
  IF Truthy(q.body.original) /\ Truthy(q.body.update)
  THEN IF CanInflate(q.body.original)
       THEN Next_([q EXCEPT !.object = ObjSet(FromJSON(q.body.original), Decode(q.body.update))],
                  "inflateParseObject")
       ELSE Throw(q, "inflateParseObject")
  ELSE IF CanInflate(q.body.object)
       THEN Next_([q EXCEPT !.object = FromJSON(q.body.object)], "inflateParseObject")
       ELSE Throw(q, "inflateParseObject")

\* fault injection: the master flag is copied only along with a user
inflateParseUserMasterWithUser(q) ==
  IF Truthy(q.body.user)
  THEN LET user == IF q.body.user.cn = Absent
                   THEN [q.body.user EXCEPT !.cn = "_User"]
                   ELSE q.body.user
       IN  Next_([q EXCEPT !.body.user = user, !.user = FromJSON(user),
                           !.master = q.body.master], "inflateParseUser")
  ELSE Next_(q, "inflateParseUser")

\* the className default is written into req.body.user itself
inflateParseUser(q) ==
  IF Truthy(q.body.user)
  THEN LET user == IF q.body.user.cn = Absent
                   THEN [q.body.user EXCEPT !.cn = "_User"]
                   ELSE q.body.user
       IN  Next_([q EXCEPT !.body.user = user, !.user = FromJSON(user),
                           !.master = q.body.master], "inflateParseUser")
  ELSE Next_([q EXCEPT !.master = q.body.master], "inflateParseUser")

\* fault injection: the wrap hands the caller's argument on instead of the object
beforeSaveResponseMojoPassThrough(q) == Next_(q, "beforeSaveResponseMojo")

beforeSaveResponseMojo(q) ==
  Next_([q EXCEPT !.success = << "mojo" >> \o @], "beforeSaveResponseMojo")

\* fault injection: the empty payload goes out through the success envelope
emptyResponseEnveloped(q) ==
  Next_([q EXCEPT !.wire = Send(@, successResponse(EmptyObj))], "emptyResponse")

emptyResponse(q) ==
  Next_([q EXCEPT !.wire = Send(@, emptyResponseBody)], "emptyResponse")

\* the last element of a save/delete chain: the handler itself, given (req, res)
invokeHandler(q, handler) ==
  [q EXCEPT !.pc = "running", !.handler = handler, !.trace = Append(@, "handler")]

\* the last element of a function chain: handler(req).then(...).catch(...)
invokeFunction(q, handler) ==
  [q EXCEPT !.pc = "pending", !.handler = handler, !.trace = Append(@, "handler")]

\* res.success(data) / res.error(data), from a handler or from the promise
\* history: the first call is kept, later ones leave it
FirstCall(q, fn, data) ==
  IF q.first.fn = ""
  THEN [fn |-> fn, arg |-> data, obj |-> q.object, edited |-> q.edited]
  ELSE q.first

resSuccess(q, data) ==
  [q EXCEPT !.wire = IF SuccessThrows(q.success, data) THEN @
                     ELSE CallSuccess(q.success, data, q.object, @),
            !.first = FirstCall(q, "success", data)]

resError(q, data) ==
  [q EXCEPT !.wire = CallError(q.error, data, @),
            !.first = FirstCall(q, "error", data)]

\* fault injection: the adapter passes both callbacks to one then(), so that an
\* exception of res.success is not routed to res.error
adapterThenTwoArgs(q, response) ==
  [resSuccess(q, response) EXCEPT !.pc = "settled"]

\* handler(req).then(res.success).catch(res.error), the promise fulfilled:
\* an exception thrown by res.success rejects the promise then() returned, and
\* catch() hands it to res.error
adapterThen(q, response) ==
  IF SuccessThrows(q.success, response)
  THEN [resError(resSuccess(q, response), PointerError)
          EXCEPT !.pc = "settled", !.caught = TRUE]
  ELSE [resSuccess(q, response) EXCEPT !.pc = "settled"]

\* the same chain, the promise rejected: then() passes the rejection on to catch()
adapterCatch(q, error) ==
  [resError(q, error) EXCEPT !.pc = "settled"]

(***************************************************************************)
(* Actions: one per step a request takes.                                  *)
(***************************************************************************)
\* fault injection: one request record shared by every connection
SetReqShared(c, q) ==
  /\ reqs' = [d \in Conns |-> q]
  /\ UNCHANGED << webhookKey, Routes, app, regLog, egress >>

SetReq(c, q) ==
  /\ reqs' = [reqs EXCEPT ![c] = q]
  /\ UNCHANGED << webhookKey, Routes, app, regLog, egress >>

\* the chain element the request on connection c is about to run
AtStep(c, name) ==
  /\ reqs[c].pc = "chain"
  /\ reqs[c].step <= Len(app[reqs[c].route].chain)
  /\ app[reqs[c].route].chain[reqs[c].step] = name

\* a POST arrives for a bound path; the router serves it with the first route bound there
Arrive(c, headers, bodies) ==
  /\ reqs[c].pc = "idle"
  /\ \E i \in 1 .. Len(app), h \in headers, b \in bodies :
       /\ \A j \in 1 .. (i - 1) : app[j].path # app[i].path
       /\ SetReq(c, [Idle EXCEPT !.pc = "validate", !.route = i, !.header = h, !.raw = b])

ValidateWebhookRequest(c) ==
  /\ reqs[c].pc = "validate"
  /\ SetReq(c, validateWebhookRequest(reqs[c], webhookKey))

JsonParser(c) ==
  /\ reqs[c].pc = "parse"
  /\ SetReq(c, jsonParser(reqs[c]))

EntryLogger(c) ==
  /\ AtStep(c, "entryLogger")
  /\ SetReq(c, entryLogger(reqs[c]))

UpdateRequestInstallationId(c) ==
  /\ AtStep(c, "updateRequestInstallationId")
  /\ SetReq(c, updateRequestInstallationId(reqs[c]))

UpdateRequestFunctionParams(c) ==
  /\ AtStep(c, "updateRequestFunctionParams")
  /\ SetReq(c, updateRequestFunctionParams(reqs[c]))

AddParseResponseMethods(c) ==
  /\ AtStep(c, "addParseResponseMethods")
  /\ SetReq(c, addParseResponseMethods(reqs[c]))

EncodeSuccessResponseObject(c) ==
  /\ AtStep(c, "encodeSuccessResponseObject")
  /\ SetReq(c, encodeSuccessResponseObject(reqs[c]))

InflateParseObject(c) ==
  /\ AtStep(c, "inflateParseObject")
  /\ SetReq(c, inflateParseObject(reqs[c]))

InflateParseUser(c) ==
  /\ AtStep(c, "inflateParseUser")
  /\ SetReq(c, inflateParseUser(reqs[c]))

BeforeSaveResponseMojo(c) ==
  /\ AtStep(c, "beforeSaveResponseMojo")
  /\ SetReq(c, beforeSaveResponseMojo(reqs[c]))

EmptyResponse(c) ==
  /\ AtStep(c, "emptyResponse")
  /\ SetReq(c, emptyResponse(reqs[c]))

InvokeHandler(c) ==
  /\ AtStep(c, "handler")
  /\ SetReq(c, invokeHandler(reqs[c], app[reqs[c].route].handler))

InvokeFunction(c) ==
  /\ AtStep(c, "handlerAdapter")
  /\ SetReq(c, invokeFunction(reqs[c], app[reqs[c].route].handler))

\* a save/delete handler edits req.object in place, any number of times
HandlerSet(c) ==
  /\ reqs[c].pc = "running"
  /\ SetReq(c, [reqs[c] EXCEPT !.object = ObjSet(@, HandlerEdit), !.edited = TRUE])

\* a save/delete handler calls res.success(data), any number of times
HandlerSuccess(c, payloads) ==
  /\ reqs[c].pc = "running"
  /\ \E data \in payloads : SetReq(c, resSuccess(reqs[c], data))

\* a save/delete handler calls res.error(data), any number of times
HandlerError(c, payloads) ==
  /\ reqs[c].pc = "running"
  /\ \E data \in payloads : SetReq(c, resError(reqs[c], data))

\* the promise a function handler returned fulfils: .then calls res.success
PromiseFulfil(c, results) ==
  /\ reqs[c].pc = "pending"
  /\ \E response \in results : SetReq(c, adapterThen(reqs[c], response))

\* the promise a function handler returned rejects: .catch calls res.error
PromiseReject(c, payloads) ==
  /\ reqs[c].pc = "pending"
  /\ \E error \in payloads : SetReq(c, adapterCatch(reqs[c], error))

\* the response is out and the connection serves the next request
Finish(c) ==
  /\ reqs[c].pc # "idle"
  /\ reqs[c].wire # << >>
  /\ SetReq(c, Idle)

RequestStep(c, headers, bodies, payloads, results) ==
  \/ Arrive(c, headers, bodies)
  \/ ValidateWebhookRequest(c)
  \/ JsonParser(c)
  \/ EntryLogger(c)
  \/ UpdateRequestInstallationId(c)
  \/ UpdateRequestFunctionParams(c)
  \/ AddParseResponseMethods(c)
  \/ EncodeSuccessResponseObject(c)
  \/ InflateParseObject(c)
  \/ InflateParseUser(c)
  \/ BeforeSaveResponseMojo(c)
  \/ EmptyResponse(c)
  \/ InvokeHandler(c)
  \/ InvokeFunction(c)
  \/ HandlerSet(c)
  \/ HandlerSuccess(c, payloads)
  \/ HandlerError(c, payloads)
  \/ PromiseFulfil(c, results)
  \/ PromiseReject(c, payloads)
  \/ Finish(c)

RegisterStep(limit, args, handlers) ==
  \E kind \in Kinds, arg \in args, handler \in handlers : Register(kind, arg, handler, limit)

\* the host binds routes for a class name and requests are served on one connection
Next ==
  \/ RegisterStep(MaxRoutes, {Str("Post")}, {"h1"})
  \/ RequestStep(1, Headers, Bodies, Payloads, Results)

Spec == Init /\ [][Next]_vars

\* a few requests, enough to take every step of every chain
FewHeaders == {Absent, "secret"}

FewBodies ==
  { Body(ObjectJson, Undefined, Undefined, UserJson, False, ParamsJson, Str("i1")),
    Body(Undefined, OriginalJson, UpdateJson, Undefined, True, Undefined, Str("i2")) }

FewPayloads == {Undefined, Str("a")}

FewResults == {Str("a"), UnsavedObject}

\* the synchronous part of serving the request on connection c: each step is a
\* callback the event loop runs as soon as the one before it called next()
PipelineStep(c) ==
  \/ ValidateWebhookRequest(c)
  \/ JsonParser(c)
  \/ EntryLogger(c)
  \/ UpdateRequestInstallationId(c)
  \/ UpdateRequestFunctionParams(c)
  \/ AddParseResponseMethods(c)
  \/ EncodeSuccessResponseObject(c)
  \/ InflateParseObject(c)
  \/ InflateParseUser(c)
  \/ BeforeSaveResponseMojo(c)
  \/ EmptyResponse(c)
  \/ InvokeHandler(c)
  \/ InvokeFunction(c)

\* the promise of the function handler on connection c settles, either way
Settle(c) == PromiseFulfil(c, FewResults) \/ PromiseReject(c, FewPayloads)

NextLive ==
  \/ RegisterStep(MaxRoutes, {Str("Post")}, {"h1"})
  \/ RequestStep(1, FewHeaders, FewBodies, FewPayloads, FewResults)

\* the event loop runs every callback that is ready, so a request in the pipeline
\* keeps moving; that the handler's promise settles is assumed of the handler
SpecLive ==
  /\ Init /\ [][NextLive]_vars
  /\ WF_vars(PipelineStep(1))
  /\ WF_vars(Settle(1))

\* the host registers, twice for the same name too, while requests are served
NextTable ==
  \/ RegisterStep(MaxRegs, {Str("Post"), Str("Comment")}, {"h1"})
  \/ RequestStep(1, FewHeaders, FewBodies, FewPayloads, FewResults)

SpecTable == Init /\ [][NextTable]_vars

\* what the host registered at startup, before it serves concurrent requests
Startup ==
  << [kind |-> "beforeSave", arg |-> Str("Post"), handler |-> "h1"],
     [kind |-> "afterSave", arg |-> Str("Post"), handler |-> "h1"],
     [kind |-> "function", arg |-> Str("Post"), handler |-> "h1"] >>

\* the state these registrations leave, a secret being configured
InitConc ==
  /\ webhookKey = "secret"
  /\ regLog = Startup
  /\ app = [i \in 1 .. Len(Startup) |->
             Route(Startup[i].kind, IdentifierOf(Startup[i].kind, Startup[i].arg),
                   Startup[i].handler)]
  /\ Routes = [k \in Kinds |->
                IF \E i \in 1 .. Len(Startup) : Startup[i].kind = k
                THEN << IdentifierOf(k, Str("Post")) >> ELSE << >>]
  /\ reqs = [c \in Conns |-> Idle]
  /\ egress = NoEgress

\* requests on every connection, their steps interleaved in any order
NextConc ==
  \E c \in Conns : RequestStep(c, {"secret"}, FewBodies, {Str("a")}, {Str("b")})

SpecConc == InitConc /\ [][NextConc]_vars

\* what callers pass to httpRequest and what the transport answers
HttpOptions == { Options(url, json) : url \in {"a", "b"}, json \in {Absent, "false", "true"} }

TransportErrors == {Str("ECONNREFUSED"), Str("ETIMEDOUT")}

HttpResponses == {HttpResponse("200"), HttpResponse("404"), HttpResponse("500")}

HttpBodies == {Undefined, EmptyStr, Str("a"), Json(Absent, Absent, Absent, "t")}

\* a caller calls httpRequest(options); every call makes its own promise
HttpRequest ==
  /\ egress.pc \in {"idle", "done"}
  /\ \E options \in HttpOptions : egress' = httpRequestCall(options)
  /\ UNCHANGED << webhookKey, Routes, app, regLog, reqs >>

\* the transport calls the callback, once per Request call: with an error and the
\* response it has, if any, or with no error, a response and its body
TransportCallback ==
  /\ egress.pc = "waiting"
  /\ \/ \E error \in TransportErrors, response \in HttpResponses \cup {NoResponse} :
          egress' = httpRequestCallback(egress, error, response, Undefined)
     \/ \E response \in HttpResponses, body \in HttpBodies :
          egress' = httpRequestCallback(egress, Null, response, body)
  /\ UNCHANGED << webhookKey, Routes, app, regLog, reqs >>

NextHttp == HttpRequest \/ TransportCallback

SpecHttp == Init /\ [][NextHttp]_vars

\* registration alone: the host's startup calls
NextReg == RegisterStep(MaxRegs, RegArgs, Handlers)

SpecReg == Init /\ [][NextReg]_vars

(***************************************************************************)
(* Properties.                                                             *)
(***************************************************************************)
Has(seq, x) == \E i \in 1 .. Len(seq) : seq[i] = x

\* the requests being served
Live == {c \in Conns : reqs[c].pc # "idle"}

KindOf(q) == app[q.route].kind

\* exactly one response went out, with this status and these keys
Sent(q, status, success, error) == q.wire = << Response(status, success, error) >>

\* a payload the caller supplied (neither undefined nor null)
Supplied(v) == v \notin {Undefined, Null}

\* C1: on every route kind and for every configured secret, a request whose
\* X-Parse-Webhook-Key header is absent or differs from the secret gets exactly
\* {error: "Unauthorized Request."} with status 200, and neither the handler nor any
\* later step of the pipeline runs for it.
C1_UnauthorizedRejected ==
  \A c \in Live :
    LET q == reqs[c] IN
      (q.header # webhookKey /\ q.pc # "validate")
        => /\ q.pc = "done"
           /\ Sent(q, 200, Missing, Str("Unauthorized Request."))
           /\ q.handler = ""
           /\ q.trace = << "validateWebhookRequest" >>

\* a request without the header was rejected on a function route
C1_Witness ==
  \E c \in Live :
    /\ webhookKey = "secret" /\ reqs[c].header = Absent /\ reqs[c].pc = "done"
    /\ KindOf(reqs[c]) = "function" /\ reqs[c].wire # << >>

\* C2 (as stated): on a function route, a promise fulfilled with a supplied value V
\* yields the body {success: encode(V)} and one rejected with a supplied value E
\* yields {error: E}, for every object, string, number and boolean payload.
C2_FunctionEnvelope ==
  \A c \in Live :
    LET q == reqs[c] IN
      (KindOf(q) = "function" /\ q.pc = "settled" /\ Supplied(q.first.arg))
        => /\ q.first.fn = "success" => Sent(q, 200, Encode(q.first.arg), Missing)
           /\ q.first.fn = "error" => Sent(q, 200, Missing, q.first.arg)

\* the wire JSON of the object a save/delete request carries, read off the envelope
WireObject(b) ==
  IF b.original # Undefined /\ b.update # Undefined
  THEN Json(Absent, Absent, b.original.id,
            IF b.update.title # Absent THEN b.update.title ELSE b.original.title)
  ELSE Json(Absent, Absent, b.object.id, b.object.title)

\* C3: on a beforeSave route, when the handler's (first) call is success() with no
\* argument, the response is {success: J} with status 200, J being the wire JSON of
\* req.object at that moment: the inflated request object when the handler has not
\* edited it, and the edited one otherwise.
C3_BeforeSaveEcho ==
  \A c \in Live :
    LET q == reqs[c] IN
      (KindOf(q) = "beforeSave" /\ q.first.fn = "success" /\ q.first.arg = Undefined)
        => /\ Sent(q, 200, ToJSON(q.first.obj), Missing)
           /\ ~q.first.edited => q.wire[1].success = WireObject(q.raw)
           /\ q.first.edited =>
                q.wire[1].success = [WireObject(q.raw) EXCEPT !.title = HandlerEdit.title]

\* a beforeSave handler edited the object and then called success()
C3_Witness ==
  \E c \in Live :
    /\ KindOf(reqs[c]) = "beforeSave" /\ reqs[c].first.fn = "success"
    /\ reqs[c].first.arg = Undefined /\ reqs[c].first.edited
    /\ reqs[c].raw.update = UpdateJson /\ reqs[c].raw.original = OriginalJson

Identifier(e) ==
  IF e.kind \in SaveDeleteKinds /\ e.arg.t = "json" /\ e.arg.cn # Absent
  THEN Str(e.arg.cn)
  ELSE e.arg

\* the place in Routes[kind] of the entry the n-th registration call appended
PlaceInKind(n) == Cardinality({m \in 1 .. n : regLog[m].kind = regLog[n].kind})

\* C5: after any sequence of registration calls, for every call made with identifier
\* I and kind K, Routes[K] contains I and a POST route is bound at "/<K>_<I>" whose
\* chain ends in the handler passed to that call.
C5_RegistrationBinds ==
  \A n \in 1 .. Len(regLog) :
    LET e == regLog[n]
        I == Identifier(e)
    IN  /\ Has(Routes[e.kind], I)
        /\ \E j \in 1 .. Len(app) :
             /\ app[j].method = "POST"
             /\ app[j].path = "/" \o e.kind \o "_" \o ToStr(I)
             /\ app[j].handler = e.handler
             /\ app[j].chain[Len(app[j].chain)] \in {"handler", "handlerAdapter"}

\* two calls registered different handlers for the same kind and identifier
C5_Witness ==
  /\ Len(regLog) = 2
  /\ regLog[1].kind = "afterDelete" /\ regLog[2].kind = "afterDelete"
  /\ regLog[1].arg = Str("Comment") /\ regLog[2].arg = Str("Comment")
  /\ regLog[1].handler # regLog[2].handler

\* C6 (as stated): for each of the five registration operations, a call with a value
\* carrying class name C binds the path and appends the identifier that a call with
\* the bare string C does.
C6_AllFiveDerive ==
  \A n \in 1 .. Len(regLog) :
    LET e == regLog[n] IN
      (e.arg.t = "json" /\ e.arg.cn # Absent)
        => /\ app[n].path = "/" \o e.kind \o "_" \o e.arg.cn
           /\ Routes[e.kind][PlaceInKind(n)] = Str(e.arg.cn)

\* C6 (amended): for the four save/delete registration operations a call with a value
\* carrying class name C binds the path and appends the identifier that a call with
\* the bare string C does; define takes its first argument as it is, so the value
\* itself is appended and the path is built from its string coercion.
C6_SaveDeleteDerive ==
  \A n \in 1 .. Len(regLog) :
    LET e == regLog[n] IN
      (e.arg.t = "json" /\ e.arg.cn # Absent)
        => IF e.kind \in SaveDeleteKinds
           THEN /\ app[n].path = "/" \o e.kind \o "_" \o e.arg.cn
                /\ Routes[e.kind][PlaceInKind(n)] = Str(e.arg.cn)
           ELSE /\ app[n].path = "/function_[object Object]"
                /\ Routes[e.kind][PlaceInKind(n)] = e.arg

\* beforeSave was registered with the bare string and then with the class-bearing value
C6_Witness ==
  /\ Len(regLog) = 2
  /\ regLog[1].kind = "beforeSave" /\ regLog[1].arg = Str("Post")
  /\ regLog[2].kind = "beforeSave" /\ regLog[2].arg = Json(Absent, "Post", Absent, Absent)
  /\ app[1].path = app[2].path

ExactlyOneKey(r) == (r.success = Missing) # (r.error = Missing)

C8_DefaultOnlyWhenAbsent ==
  \A c \in Live :
    LET q == reqs[c]
        v == IF Supplied(q.first.arg) THEN q.first.arg ELSE True
    IN  KindOf(q) = "beforeDelete"
          => /\ q.first.fn = "success" => Sent(q, 200, v, Missing)
             /\ q.first.fn = "error" => Sent(q, 200, Missing, v)

\* C9 (as stated): a handler error with payload E, a rejection on a function route or
\* an error(E) call on a save/delete route, always yields status 200 and the body
\* {error: E}, E passed through verbatim.
C9_ErrorVerbatim ==
  \A c \in Live :
    LET q == reqs[c] IN
      (q.first.fn = "error" /\ Supplied(q.first.arg)) => Sent(q, 200, Missing, q.first.arg)

\* the object a save/delete envelope describes: original with update's fields when
\* both are there, object otherwise
EnvelopeObject(b) ==
  LET merge == b.original # Undefined /\ b.update # Undefined
      base == IF merge THEN b.original ELSE b.object
  IN  [t |-> "ParseObject", s |-> Absent, ty |-> Absent, cn |-> base.cn, id |-> base.id,
       title |-> IF merge /\ b.update.title # Absent THEN b.update.title ELSE base.title]

ListedOrder(kind) ==
  << "validateWebhookRequest", "jsonParser" >> \o
  CASE kind = "beforeSave" ->
         << "entryLogger", "updateRequestInstallationId", "addParseResponseMethods",
            "inflateParseObject", "inflateParseUser", "beforeSaveResponseMojo", "handler" >>
    [] kind \in {"afterSave", "afterDelete"} ->
         << "entryLogger", "updateRequestInstallationId", "addParseResponseMethods",
            "inflateParseObject", "inflateParseUser", "emptyResponse", "handler" >>
    [] kind = "beforeDelete" ->
         << "entryLogger", "updateRequestInstallationId", "addParseResponseMethods",
            "inflateParseObject", "inflateParseUser", "handler" >>
    [] OTHER ->
         << "entryLogger", "updateRequestInstallationId", "updateRequestFunctionParams",
            "addParseResponseMethods", "encodeSuccessResponseObject", "inflateParseUser",
            "handler" >>

IsPrefix(a, b) == Len(a) <= Len(b) /\ \A i \in 1 .. Len(a) : a[i] = b[i]

\* the user a body describes once reconstructed: class "_User" unless the body names one
EnvelopeUser(b) ==
  IF b.user = Undefined THEN Undefined
  ELSE [t |-> "ParseObject", s |-> Absent, ty |-> Absent,
        cn |-> IF b.user.cn = Absent THEN "_User" ELSE b.user.cn,
        id |-> b.user.id, title |-> b.user.title]

\* C11: for every authorized request the steps run in the order listed for its kind
\* and the handler runs last; when the handler is invoked on a save/delete route,
\* installationId, object, user (if supplied) and master are on the request and
\* success/error are installed (success wrapped by the result wrap on beforeSave);
\* on a function route installationId, params, user and master are set and success
\* is wrapped by the encoder.
C11_OrderedAndReady ==
  \A c \in Live :
    LET q == reqs[c]
        b == q.raw
        k == KindOf(q)
    IN  q.header = webhookKey
          => /\ IsPrefix(q.trace, ListedOrder(k))
             /\ Has(q.trace, "handler")
                  => /\ q.trace = ListedOrder(k)
                     /\ q.handler = app[q.route].handler
                     /\ q.installationId = b.installationId
                     /\ q.user = EnvelopeUser(b)
                     /\ q.master = b.master
                     /\ q.error = << "base" >>
                     /\ k \in SaveDeleteKinds
                          => /\ q.object.t = "ParseObject"
                             /\ ~q.edited => q.object = EnvelopeObject(b)
                             /\ q.success = IF k = "beforeSave" THEN << "mojo", "base" >>
                                            ELSE << "base" >>
                     /\ k = "function"
                          => /\ q.params = b.params
                             /\ q.success = << "encode", "base" >>

\* a function handler was invoked for a request that carried a user and params
C11_Witness ==
  \E c \in Live :
    /\ KindOf(reqs[c]) = "function" /\ reqs[c].pc = "pending"
    /\ reqs[c].raw.user = UserJson /\ reqs[c].params = ParamsJson

\* C12: on every route kind, after user inflation req.master is the body's master
\* flag (absent when the body has none) whether or not a user is present, and
\* req.user is the reconstruction of body.user, of class "_User" when the body names
\* no class and of the body's own class otherwise, exactly when the body has a user;
\* without one req.user stays absent.
C12_UserAndMaster ==
  \A c \in Live :
    LET q == reqs[c] IN
      IF Has(q.trace, "inflateParseUser")
      THEN /\ q.master = q.raw.master
           /\ q.user = EnvelopeUser(q.raw)
           /\ (q.user # Undefined) <=> (q.raw.user # Undefined)
      ELSE q.user = Undefined /\ q.master = Undefined

\* the master flag was copied for a function request that carried no user
C12_Witness ==
  \E c \in Live :
    /\ KindOf(reqs[c]) = "function" /\ Has(reqs[c].trace, "inflateParseUser")
    /\ reqs[c].raw.user = Undefined /\ reqs[c].master = True

\* C13: with no secret configured the header is still compared: a request passes
\* authentication exactly when it carries no X-Parse-Webhook-Key header, and every
\* request carrying a header value, the empty string included, is rejected with the
\* Unauthorized envelope.
C13_UnsetSecretStillCompared ==
  \A c \in Live :
    LET q == reqs[c] IN
      (webhookKey = Absent /\ Has(q.trace, "validateWebhookRequest"))
        => /\ (q.header = Absent) <=> (Len(q.trace) > 1 \/ q.pc = "parse")
           /\ q.header # Absent
                => /\ q.pc = "done" /\ q.handler = ""
                   /\ Sent(q, 200, Missing, Str("Unauthorized Request."))

\* with no secret configured, a request with an empty header was rejected
C13_Witness ==
  /\ webhookKey = Absent
  /\ \E c \in Live :
       reqs[c].header = "" /\ reqs[c].pc = "done" /\ reqs[c].wire # << >>

\* C18 (as stated): on a beforeSave route every success response carries the wire
\* JSON of req.object whatever argument the handler passes to success, an explicit
\* payload never appearing in the response, while error(data) is not affected by the
\* wrap and sends data.
C18_SuccessEchoesErrorSendsData ==
  \A c \in Live :
    LET q == reqs[c] IN
      KindOf(q) = "beforeSave"
        => /\ q.first.fn = "success"
                => /\ Sent(q, 200, ToJSON(q.first.obj), Missing)
                   /\ Supplied(q.first.arg) => q.wire[1].success # q.first.arg
           /\ (q.first.fn = "error" /\ Supplied(q.first.arg))
                => Sent(q, 200, Missing, q.first.arg)

\* C14 (as stated): on a function route, once the handler's promise settles exactly
\* one response is sent: a success envelope exactly when the promise fulfilled and an
\* error envelope exactly when it rejected; success and error are never both invoked
\* for one request, and nothing is sent before the promise settles.
C14_OneResponsePerOutcome ==
  \A c \in Live :
    LET q == reqs[c] IN
      (KindOf(q) = "function" /\ q.header = webhookKey)
        => /\ q.pc # "settled" => q.wire = << >>
           /\ q.pc = "settled"
                => /\ Len(q.wire) = 1
                   /\ (q.first.fn = "success") <=> (q.wire[1].success # Missing)
                   /\ (q.first.fn = "error") <=> (q.wire[1].error # Missing)
                   /\ ~q.caught

\* C15: on function routes every authorized request whose handler's promise settles
\* is eventually answered, and as long as the promise has not settled nothing is
\* sent for the request: the pipeline has no timeout and answers nothing on its own.
C15_AnsweredWhenSettled ==
  /\ [](\A c \in Live :
          (KindOf(reqs[c]) = "function" /\ reqs[c].header = webhookKey
             /\ reqs[c].pc # "settled") => reqs[c].wire = << >>)
  /\ \A c \in Conns :
       (reqs[c].pc = "validate" /\ reqs[c].header = webhookKey
          /\ app[reqs[c].route].kind = "function")
         ~> (reqs[c].pc = "settled" /\ reqs[c].wire # << >>)

\* a function's promise fulfilled with an unsaved object and the request was answered
C15_Witness ==
  \E c \in Live :
    /\ KindOf(reqs[c]) = "function" /\ reqs[c].pc = "settled"
    /\ reqs[c].first.arg = UnsavedObject /\ reqs[c].wire # << >>

\* C16: the table is append-only and request handling never touches it: a
\* registration of kind K appends exactly its identifier to the end of K's sequence,
\* again when the same (K, I) was registered before, and leaves the other kinds'
\* sequences and every existing entry in place; a step of any request, authorized
\* or not, leaves the whole table as it was.
C16_TableAppendOnly ==
  [][ /\ regLog' # regLog
        => LET call == regLog'[Len(regLog')] IN
             /\ Routes'[call.kind] =
                  Append(Routes[call.kind], IdentifierOf(call.kind, call.arg))
             /\ \A k \in Kinds \ {call.kind} : Routes'[k] = Routes[k]
      /\ regLog' = regLog => Routes' = Routes
      /\ reqs' # reqs => Routes' = Routes ]_vars

\* the same name was registered twice for one kind and a request has been answered
C16_Witness ==
  /\ \E k \in Kinds : Len(Routes[k]) = 2 /\ Routes[k][1] = Routes[k][2]
  /\ \E c \in Live : reqs[c].wire # << >>

\* what the steps a request has taken make of its own body
OwnContext(q) ==
  LET b == q.raw
      did(name) == Has(q.trace, name) /\ q.pc # "threw"
      object == EnvelopeObject(b)
  IN  /\ q.installationId =
           IF did("updateRequestInstallationId") THEN b.installationId ELSE Undefined
      /\ q.params = IF did("updateRequestFunctionParams") THEN b.params ELSE Undefined
      /\ q.user = IF did("inflateParseUser") THEN EnvelopeUser(b) ELSE Undefined
      /\ q.master = IF did("inflateParseUser") THEN b.master ELSE Undefined
      /\ q.object =
           IF ~did("inflateParseObject") THEN Undefined
           ELSE IF q.edited THEN [object EXCEPT !.title = HandlerEdit.title] ELSE object

\* the response on a request's connection is the one its own steps and its own
\* handler's first call produce
OwnResponse(q) ==
  LET k == KindOf(q)
      data == q.first.arg
      answer ==
        CASE q.header # webhookKey -> errorResponse(Str("Unauthorized Request."))
          [] q.pc = "threw" -> routerError
          [] Has(q.trace, "emptyResponse") -> emptyResponseBody
          [] q.caught -> errorResponse(PointerError)
          [] q.first.fn = "error" -> errorResponse(data)
          [] k = "beforeSave" -> successResponse(ToJSON(q.first.obj))
          [] k = "function" -> successResponse(Encode(data))
          [] OTHER -> successResponse(data)
      answered ==
        \/ q.header # webhookKey /\ q.pc = "done"
        \/ q.pc = "threw"
        \/ Has(q.trace, "emptyResponse")
        \/ q.first.fn # ""
  IN  q.wire = IF answered THEN << answer >> ELSE << >>

\* C17: with several requests in flight and their steps and handler completions
\* interleaved in any order, each request's object, user, master, params and
\* installationId and its success/error callbacks come from its own body alone, each
\* response is written to the connection of the request that produced it, and no
\* step of one request changes anything of another.
C17_RequestsIsolated ==
  /\ [](\A c \in Live :
          /\ OwnContext(reqs[c])
          /\ OwnResponse(reqs[c])
          /\ reqs[c].success \in
               {<< >>, << "base" >>, << "mojo", "base" >>, << "encode", "base" >>}
          /\ reqs[c].pc \in {"running", "pending"}
               => reqs[c].success =
                    CASE KindOf(reqs[c]) = "beforeSave" -> << "mojo", "base" >>
                      [] KindOf(reqs[c]) = "function" -> << "encode", "base" >>
                      [] OTHER -> << "base" >>)
  /\ [][\A c \in Conns :
          reqs'[c] # reqs[c] => \A d \in Conns \ {c} : reqs'[d] = reqs[d]]_vars

\* two requests with different bodies are past their handlers at once, one on a
\* beforeSave route and answered, the other on a function route and still pending
C17_Witness ==
  \E c, d \in Live :
    /\ reqs[c].raw # reqs[d].raw
    /\ KindOf(reqs[c]) = "beforeSave" /\ reqs[c].first.fn = "success"
    /\ KindOf(reqs[d]) = "function" /\ reqs[d].pc = "pending"

\* C19: httpRequest(options) makes one outbound attempt and returns a promise that
\* settles exactly once: resolved with the response object, its text field set to
\* the body, when the transport reports no error, and rejected with the response
\* object when it reports one; it never retries and never both resolves and rejects.
C19_OneAttemptOneSettlement ==
  LET p == egress.promise
      o == egress.outcome
  IN  /\ egress.pc = "waiting"
           => /\ egress.attempts = 1
              /\ egress.options = [egress.given EXCEPT !.json = "true"]
              /\ p.state = "pending" /\ p.resolves = 0 /\ p.rejects = 0
      /\ egress.pc = "done"
           => /\ egress.attempts = 1
              /\ p.resolves + p.rejects = 1
              /\ ~Truthy(o.error)
                   => /\ p.state = "resolved" /\ p.resolves = 1
                      /\ p.value.statusCode = o.response.statusCode
                      /\ p.value.text = o.body
              /\ Truthy(o.error)
                   => /\ p.state = "rejected" /\ p.rejects = 1
                      /\ p.value = o.response

\* the transport reported an error along with a 500 response and the promise rejected
C19_Witness ==
  /\ egress.pc = "done" /\ egress.outcome.error = Str("ETIMEDOUT")
  /\ egress.promise.state = "rejected" /\ egress.promise.value = HttpResponse("500")

====
